---- MODULE Spec2Model ----
(***************************************************************************)
(* A model of the feathers-sequelize CRUD adapter (src/src/index.js): the  *)
(* Service class, its six operations, and the part of the Sequelize model  *)
(* API and of feathers-query-filters that the operations call.             *)
(*                                                                         *)
(* A table is a set of rows with a unique primary key.  Every row has the  *)
(* three columns of Fields.  The service's id field (options.id) is the    *)
(* table's primary key; it is "id" or "code", and the other of the two is  *)
(* then an ordinary column.  null is Null, undefined is Undef.             *)
(* Queries carry no $select and no $sort, so select(params, this.id)       *)
(* returns its argument and rows come back in primary-key order.           *)
(***************************************************************************)
EXTENDS Integers, Sequences, FiniteSets, TLC

VARIABLES idField, dialect, paginate, store, last, flight

vars == <<idField, dialect, paginate, store, last, flight>>

\* Largest primary-key value a created row may carry.
MaxId == 2
\* Largest value of the data column "v".
MaxVal == 2

Null == 0
Undef == -1

Fields == {"id", "code", "v"}
Ids == 1..MaxId
Vals == 1..MaxVal

EmptyObj == [f \in {} |-> Null]

Min(a, b) == IF a < b THEN a ELSE b

(***************************************************************************)
(* The Sequelize model API, as the adapter calls it.                       *)
(***************************************************************************)

\* The table's rows in primary-key order.
RECURSIVE Rows(_)
Rows(S) ==
  IF S = {} THEN <<>>
  ELSE LET m == CHOOSE r \in S : \A o \in S : r[idField] <= o[idField]
       IN <<m>> \o Rows(S \ {m})

\* A where clause maps a column to the set of values it admits:
\* {v: 1} is [v |-> {1}], {id: {$in: l}} is [id |-> the elements of l].
Matches(r, where) == \A f \in DOMAIN where : r[f] \in where[f]

Matching(S, where) == {r \in S : Matches(r, where)}

\* LIMIT / OFFSET of a result sequence.
Slice(rows, limit, offset) ==
  LET off == IF offset = Undef THEN 0 ELSE offset
      rest == SubSeq(rows, off + 1, Len(rows))
  IN IF limit = Undef THEN rest ELSE SubSeq(rest, 1, Min(limit, Len(rest)))

\* Model.findAll(q)
findAll(S, q) == Slice(Rows(Matching(S, q.where)), q.limit, q.offset)

\* Model.findAndCount(q): count ignores limit and offset.
findAndCount(S, q) ==
  [count |-> Cardinality(Matching(S, q.where)), rows |-> findAll(S, q)]

\* Model.findById(id): the row whose primary key is id, as a set of 0 or 1.
findById(S, id) == {r \in S : r[idField] = id}

\* The row r with the columns of values overwritten.
Assign(r, values) ==
  [f \in Fields |-> IF f \in DOMAIN values THEN values[f] ELSE r[f]]

\* Model.update(values, {where}): writes values to every matching row;
\* with returning it yields the rows written, in their new state.
ModelUpdate(S, values, where) ==
  LET hit == Matching(S, where)
  IN [store |-> (S \ hit) \cup {Assign(r, values) : r \in hit},
      rows  |-> Rows({Assign(r, values) : r \in hit}),
      keys  |-> {r[idField] : r \in hit}]

\* Model.destroy({where})
destroy(S, where) == S \ Matching(S, where)

(***************************************************************************)
(* Parameters and results.                                                 *)
(* params is [query, include, limit, returning, paginate]:                 *)
(*   query     the raw query [where, limit, skip] ($limit, $skip)          *)
(*   include   params.sequelize.include is set                             *)
(*   limit     params.sequelize.limit, or Undef                            *)
(*   returning params.$returning: "unset", "true" or "false"               *)
(*   paginate  params.paginate: [set, default, max], set = it is defined   *)
(* data is [isArray, items]: an object is one item, an array is its items. *)
(***************************************************************************)

NoPaginate == [default |-> Undef, max |-> Undef]

Ok(shape, rows) ==
  [kind |-> "ok", shape |-> shape, rows |-> rows,
   total |-> Undef, limit |-> Undef, skip |-> Undef]

Page(total, limit, skip, rows) ==
  [kind |-> "ok", shape |-> "page", rows |-> rows,
   total |-> total, limit |-> limit, skip |-> skip]

Err(kind) ==
  [kind |-> kind, shape |-> "none", rows |-> <<>>,
   total |-> Undef, limit |-> Undef, skip |-> Undef]

Range(seq) == {seq[i] : i \in DOMAIN seq}

\* utils.errorHandler: ORM constraint errors become BadRequest, errors of
\* the service's own taxonomy pass through.
errorHandler(kind) ==
  CASE kind = "SequelizeUniqueConstraintError" -> "BadRequest"
    [] kind = "SequelizeValidationError" -> "BadRequest"
    [] OTHER -> kind

\* utils.getWhere: a copy of the field conditions (none uses $nin).
getWhere(where) == [f \in DOMAIN where |-> where[f]]

\* feathers-query-filters getLimit
getLimit(limit, pag) ==
  IF pag.default # Undef
  THEN LET lower == IF limit # Undef THEN limit ELSE pag.default
       IN IF pag.max # Undef THEN Min(lower, pag.max) ELSE lower
  ELSE limit

\* feathers-query-filters: splits the control keys from the field conditions.
filter(query, pag) ==
  [filters |-> [limit |-> getLimit(query.limit, pag), skip |-> query.skip],
   query   |-> query.where]

\* lodash.omit(data, key)
omit(data, key) == [f \in DOMAIN data \ {key} |-> data[f]]

(***************************************************************************)
(* The Service methods.  A method that writes yields [store, out], one     *)
(* that only reads yields its outcome.                                     *)
(***************************************************************************)

\* _find with the query's $limit left out of the ORM call.
_find_NoLimit(S, params, pag) ==
  LET f == filter(params.query, pag)
      q == [where  |-> getWhere(f.query),
            limit  |-> params.limit,
            offset |-> f.filters.skip]
      result == findAndCount(S, q)
  IN [total |-> result.count,
      limit |-> f.filters.limit,
      skip  |-> IF f.filters.skip = Undef THEN 0 ELSE f.filters.skip,
      data  |-> result.rows]

\* Service._find: a page object, whatever the pagination.
_find(S, params, pag) ==
  LET f == filter(params.query, pag)
      q == [where  |-> getWhere(f.query),
            limit  |-> IF params.limit # Undef THEN params.limit
                       ELSE f.filters.limit,
            offset |-> f.filters.skip]
      result == findAndCount(S, q)
  IN [total |-> result.count,
      limit |-> f.filters.limit,
      skip  |-> IF f.filters.skip = Undef THEN 0 ELSE f.filters.skip,
      data  |-> result.rows]

\* Service.find
find(S, params) ==
  LET pag == IF params.paginate.set
             THEN [default |-> params.paginate.default,
                   max |-> params.paginate.max]
             ELSE paginate
      page == _find(S, params, pag)
  IN IF pag.default = Undef
     THEN Ok("many", page.data)
     ELSE Page(page.total, page.limit, page.skip, page.data)

\* Service._get
_get(S, id, params) ==
  IF params.include
  THEN LET where == getWhere(params.query.where)
           q == [where  |-> where @@ ("id" :> {id}),
                 limit  |-> params.limit,
                 offset |-> Undef]
           result == findAll(S, q)
       IN IF Len(result) = 0 THEN Err("NotFound")
          ELSE Ok("one", <<result[1]>>)
  ELSE LET instance == findById(S, id)
       IN IF instance = {} THEN Err("NotFound")
          ELSE Ok("one", Rows(instance))

\* Service._getOrFind
_getOrFind(S, id, params) ==
  IF id = Null
  THEN Ok("many", _find(S, params, NoPaginate).data)
  ELSE _get(S, id, params)

\* Service.get
get(S, id, params) == _get(S, id, params)

\* The row a created item becomes: columns the item lacks are null.
NewRow(item) ==
  [f \in Fields |-> IF f \in DOMAIN item THEN item[f] ELSE Null]

\* Service.create: Model.create for an object, Model.bulkCreate for an
\* array; a primary key that is taken fails the whole insert.
create(S, data, params) ==
  LET rows == [i \in DOMAIN data.items |-> NewRow(data.items[i])]
      keys == {rows[i][idField] : i \in DOMAIN rows}
      clash == \/ Cardinality(keys) # Len(rows)
               \/ \E r \in S : r[idField] \in keys
  IN IF clash
     THEN [store |-> S,
           out |-> Err(errorHandler("SequelizeUniqueConstraintError"))]
     ELSE [store |-> S \cup Range(rows),
           out |-> Ok(IF data.isArray THEN "many" ELSE "one", rows)]

\* The where clause patch and remove build: the field conditions of the
\* query, with the id field set to id when id is not null.
targetWhere(id, params) ==
  LET where == filter(params.query, NoPaginate).query
  IN IF id # Null THEN (idField :> {id}) @@ where ELSE where

\* Service.patch, the postgres path: one update that returns its rows.
patchReturning(S, id, data, params) ==
  LET results == ModelUpdate(S, omit(data, idField), targetWhere(id, params))
  IN [store |-> results.store,
      out |-> IF id = Null THEN Ok("many", results.rows)
              ELSE IF Len(results.rows) = 0 THEN Err("NotFound")
              ELSE Ok("one", <<results.rows[1]>>)]

\* Service.patch, the generic path, step 1: the ids to re-query.
patchIds(S, id, params) ==
  IF id = Null
  THEN LET page == _find(S, params, NoPaginate)
       IN [i \in DOMAIN page.data |-> page.data[i][idField]]
  ELSE <<id>>

\* Step 2: the update.
patchUpdate(S, id, data, params) ==
  ModelUpdate(S, omit(data, idField), targetWhere(id, params))

\* The re-query run with the call's own query instead of the id list.
patchRequery_ByQuery(S, id, params, idList) ==
  IF params.returning # "false"
  THEN _getOrFind(S, id, params)
  ELSE Ok("many", <<>>)

\* Step 3: the re-query of the ids of step 1.
patchRequery(S, id, params, idList) ==
  LET findParams ==
        [params EXCEPT !.query = [where |-> (idField :> Range(idList)),
                                  limit |-> Undef, skip |-> Undef]]
  IN IF params.returning # "false"
     THEN _getOrFind(S, id, findParams)
     ELSE Ok("many", <<>>)

\* Service.patch, the generic path with nothing between its steps.
patchGeneric(S, id, data, params) ==
  LET idList == patchIds(S, id, params)
      after == patchUpdate(S, id, data, params).store
  IN [store |-> after, out |-> patchRequery(after, id, params, idList)]

\* The dialect test that selects the patch path.
usesReturning(params) ==
  dialect = "postgres" /\ params.returning # "false"

\* Service.patch
patch(S, id, data, params) ==
  IF usesReturning(params)
  THEN patchReturning(S, id, data.items[1], params)
  ELSE patchGeneric(S, id, data.items[1], params)

\* instance.update(copy): a primary key that is already set is not
\* overwritten; every other column of copy is.
instanceUpdate(instance, copy) ==
  [f \in Fields |-> IF f \in DOMAIN copy /\ f # idField THEN copy[f]
                    ELSE instance[f]]

\* The replacement with the fields data lacks kept instead of nulled.
updateCopy_Keep(instance, data) ==
  [key \in DOMAIN instance |->
     IF key \in DOMAIN data THEN data[key] ELSE instance[key]]

\* The replacement update builds: every key of the existing record, with
\* the value data gives it, or null.
updateCopy(instance, data) ==
  [key \in DOMAIN instance |->
     IF key \in DOMAIN data THEN data[key] ELSE Null]

\* update without the test for an array: the first item is written.
update_NoArrayTest(S, id, data, params) ==
  LET found == findById(S, id)
  IN IF found = {}
     THEN [store |-> S, out |-> Err("NotFound")]
     ELSE LET instance == CHOOSE r \in found : TRUE
              saved == instanceUpdate(instance,
                                      updateCopy(instance, data.items[1]))
          IN [store |-> (S \ {instance}) \cup {saved},
              out |-> Ok("one", <<saved>>)]

\* Service.update
update(S, id, data, params) ==
  IF data.isArray
  THEN [store |-> S, out |-> Err("BadRequest")]
  ELSE LET found == findById(S, id)
       IN IF found = {}
          THEN [store |-> S, out |-> Err("NotFound")]
          ELSE LET instance == CHOOSE r \in found : TRUE
                   saved == instanceUpdate(instance,
                                           updateCopy(instance, data.items[1]))
               IN [store |-> (S \ {instance}) \cup {saved},
                   out |-> Ok("one", <<saved>>)]

\* Service.remove
remove(S, id, params) ==
  IF params.returning # "false"
  THEN LET data == _getOrFind(S, id, params)
       IN IF data.kind # "ok"
          THEN [store |-> S, out |-> data]
          ELSE [store |-> destroy(S, targetWhere(id, params)), out |-> data]
  ELSE [store |-> destroy(S, targetWhere(id, params)),
        out |-> Ok("many", <<>>)]

(***************************************************************************)
(* The inputs the operations are called with.                              *)
(***************************************************************************)

\* Largest $limit and $skip a query carries.
MaxLimit == 1

Limits == {Undef} \cup (1..MaxLimit)

Wheres == {EmptyObj} \cup {("v" :> {x}) : x \in Vals \ {MaxVal}}

\* A query carries field conditions and at most one of $limit and $skip.
Queries ==
  {[where |-> w, limit |-> l, skip |-> k] :
     w \in Wheres, l \in Limits, k \in Limits} \
  {q \in [where : Wheres, limit : Limits, skip : Limits] :
     q.limit # Undef /\ q.skip # Undef}

Returnings == {"unset", "true", "false"}

UnsetPaginate == [set |-> FALSE, default |-> Undef, max |-> Undef]

\* params.paginate: not given, given without a default, given with one.
ParamPaginates ==
  {UnsetPaginate, [set |-> TRUE, default |-> Undef, max |-> Undef]}
  \cup {[set |-> TRUE, default |-> d, max |-> m] :
          d \in 1..MaxLimit, m \in Limits}

\* options.paginate || {}
ServicePaginates ==
  {NoPaginate} \cup {[default |-> d, max |-> Undef] : d \in 1..MaxLimit}

Params(query, include, limit, returning, pag) ==
  [query |-> query, include |-> include, limit |-> limit,
   returning |-> returning, paginate |-> pag]

\* The objects patch and update are given: one column, two columns without
\* "v", and a whole record.
Objects ==
  {("v" :> x) : x \in Vals}
  \cup {("id" :> 1) @@ ("code" :> MaxId)}
  \cup {("id" :> MaxId) @@ ("code" :> 1) @@ ("v" :> 1)}

Object(o) == [isArray |-> FALSE, items |-> <<o>>]

Array(items) == [isArray |-> TRUE, items |-> items]

NoData == Array(<<>>)

\* The records create is given.
NewRecords == [id : Ids, code : Ids, v : Vals]

\* The arrays create is given.
NewArrays == [1..2 -> {r \in NewRecords : r.id = r.code /\ r.v = 1}]

Present(S, id) == \E r \in S : r[idField] = id

FlightIdle ==
  [pc |-> "idle", id |-> Null, data |-> EmptyObj,
   params |-> Params([where |-> EmptyObj, limit |-> Undef, skip |-> Undef],
                     FALSE, Undef, "unset", UnsetPaginate),
   idList |-> <<>>, written |-> {}, alone |-> TRUE, out |-> Err("pending")]

Call(op, id, data, params, out) ==
  [op |-> op, id |-> id, data |-> data, params |-> params,
   pre |-> store, out |-> out]

(***************************************************************************)
(* The state machine: a service constructed over an empty table, and one   *)
(* action per service method, each the whole call.                         *)
(***************************************************************************)

NoCall ==
  [op |-> "none", id |-> Null, data |-> NoData,
   params |-> FlightIdle.params, pre |-> {}, out |-> Err("none")]

Init ==
  /\ idField \in {"id", "code"}
  /\ dialect \in {"postgres", "sqlite"}
  /\ paginate \in ServicePaginates
  /\ store = {}
  /\ last = NoCall
  /\ flight = FlightIdle

\* The client issues its calls one after another: a call is made when the
\* outcome of the one before has been taken.
Ready == last.op = "none"

Return ==
  /\ last.op # "none"
  /\ last' = NoCall
  /\ UNCHANGED <<idField, dialect, paginate, store, flight>>

Find ==
  \E q \in Queries, lim \in {Undef, MaxLimit + 1}, pag \in ParamPaginates :
    LET params == Params(q, FALSE, lim, "unset", pag)
    IN /\ Ready
       /\ last' = Call("find", Null, NoData, params, find(store, params))
       /\ UNCHANGED <<idField, dialect, paginate, store, flight>>

\* With an eager-load option the raw query reaches the where clause, so
\* get and remove are then given queries without $limit and $skip.
Plain(q, include) == include => (q.limit = Undef /\ q.skip = Undef)

Get ==
  \E id \in Ids, q \in Queries, include \in BOOLEAN :
    LET params == Params(q, include, Undef, "unset", UnsetPaginate)
    IN /\ Ready
       /\ Plain(q, include)
       /\ last' = Call("get", id, NoData, params, get(store, id, params))
       /\ UNCHANGED <<idField, dialect, paginate, store, flight>>

Create ==
  \E data \in {Object(r) : r \in NewRecords} \cup {Array(a) : a \in NewArrays} :
    LET params == FlightIdle.params
        res == create(store, data, params)
    IN /\ Ready
       /\ store' = res.store
       /\ last' = Call("create", Null, data, params, res.out)
       /\ UNCHANGED <<idField, dialect, paginate, flight>>

Patch ==
  \E id \in Ids \cup {Null}, o \in Objects, q \in Queries,
     include \in BOOLEAN, returning \in Returnings :
    LET params == Params(q, include, Undef, returning, UnsetPaginate)
        res == patch(store, id, Object(o), params)
    IN /\ Ready
       /\ store' = res.store
       /\ last' = Call("patch", id, Object(o), params, res.out)
       /\ UNCHANGED <<idField, dialect, paginate, flight>>

Update ==
  \E id \in Ids, data \in {Object(o) : o \in Objects}
                          \cup {Array(<<o>>) : o \in Objects} :
    LET params == FlightIdle.params
        res == update(store, id, data, params)
    IN /\ Ready
       /\ store' = res.store
       /\ last' = Call("update", id, data, params, res.out)
       /\ UNCHANGED <<idField, dialect, paginate, flight>>

Remove ==
  \E id \in Ids \cup {Null}, q \in Queries, include \in BOOLEAN,
     returning \in Returnings :
    LET params == Params(q, include, Undef, returning, UnsetPaginate)
        res == remove(store, id, params)
    IN /\ Ready
       /\ Plain(q, include)
       /\ store' = res.store
       /\ last' = Call("remove", id, NoData, params, res.out)
       /\ UNCHANGED <<idField, dialect, paginate, flight>>

Next == Find \/ Get \/ Create \/ Patch \/ Update \/ Remove \/ Return

Spec == Init /\ [][Next]_vars

(***************************************************************************)
(* The same service with a client that only creates and finds, and one     *)
(* that only creates and updates: the specifications the claims about find *)
(* and update are checked under.  Neither method reads the dialect, and    *)
(* update reads no pagination.                                             *)
(***************************************************************************)

InitFind ==
  /\ idField = "id"
  /\ dialect = "sqlite"
  /\ paginate \in ServicePaginates
  /\ store = {}
  /\ last = NoCall
  /\ flight = FlightIdle

NextFind == Create \/ Find \/ Return

SpecFind == InitFind /\ [][NextFind]_vars

InitUpdate ==
  /\ idField \in {"id", "code"}
  /\ dialect = "sqlite"
  /\ paginate = NoPaginate
  /\ store = {}
  /\ last = NoCall
  /\ flight = FlightIdle

NextUpdate == Create \/ Update \/ Return

SpecUpdate == InitUpdate /\ [][NextUpdate]_vars

(***************************************************************************)
(* The claims.  A state with last.op set is the state right after that     *)
(* call: last.pre is the table before it, store the table after it.        *)
(***************************************************************************)

Called(op) == last.op = op

Resolved == last.out.kind = "ok"

\* C1 (as claimed): get(id) and update(id, object) of an id no stored
\* record has reject with NotFound.
C1_AbsentIdIsNotFound ==
  (/\ Called("get") \/ (Called("update") /\ ~last.data.isArray)
   /\ ~Present(last.pre, last.id))
  => last.out.kind = "NotFound"

\* C2 (as claimed): remove(id) and patch(id, data) of a non-null id no
\* stored record has reject with NotFound, whatever $returning and dialect.
C2_AbsentTargetIsNotFound ==
  (/\ Called("remove") \/ Called("patch")
   /\ last.id # Null
   /\ ~Present(last.pre, last.id))
  => last.out.kind = "NotFound"

\* The rows of the table before the call that the call's filter matches.
Targets == Matching(last.pre, last.params.query.where)

Patched(r) == Assign(r, omit(last.data.items[1], idField))

\* C3 (as claimed): patch(null, data, params) writes data to every record
\* the filter matches and to no other, and resolves with exactly the
\* records it wrote, in their new state ($returning not false).
C3_PatchAllReturnsWhatItWrote ==
  (Called("patch") /\ last.id = Null /\ last.params.returning # "false")
  => /\ store = (last.pre \ Targets) \cup {Patched(r) : r \in Targets}
     /\ Resolved
     /\ Range(last.out.rows) = {Patched(r) : r \in Targets}
     /\ Len(last.out.rows) = Cardinality(Targets)

\* C4 (as claimed): with $returning not false the records remove resolves
\* with are exactly the records it deleted: for a non-null id the record of
\* that id, which is then gone; for a null id every record the filter
\* matches.
C4_RemoveReturnsWhatItDeleted ==
  (Called("remove") /\ last.params.returning # "false" /\ Resolved)
  => /\ Range(last.out.rows) = last.pre \ store
     /\ Len(last.out.rows) = Cardinality(last.pre \ store)
     /\ last.id # Null => ~Present(store, last.id)
     /\ last.id = Null => store = last.pre \ Targets

\* The paginate option find uses: params.paginate when it is given,
\* the service's otherwise.
EffectiveDefault ==
  IF last.params.paginate.set THEN last.params.paginate.default
  ELSE paginate.default

\* C5 (as claimed): with pagination configured find resolves with a page
\* whose data is no longer than its limit, for every params.sequelize
\* passthrough; without it find resolves with the bare sequence.
C5_PageWithinLimitAnyPassthrough ==
  Called("find")
  => /\ EffectiveDefault # Undef
          => last.out.shape = "page" /\ Len(last.out.rows) <= last.out.limit
     /\ EffectiveDefault = Undef => last.out.shape = "many"

\* C5 (amended): with pagination configured find resolves with a page
\* {total, limit, skip, data}, and data is no longer than limit when
\* params.sequelize sets no limit of its own; without pagination find
\* resolves with the bare sequence.
C5_PageWithinLimit ==
  Called("find")
  => /\ EffectiveDefault # Undef
          => /\ last.out.shape = "page"
             /\ last.out.limit # Undef
             /\ last.params.limit = Undef
                  => Len(last.out.rows) <= last.out.limit
     /\ EffectiveDefault = Undef => last.out.shape = "many"

\* C5 witness: a paginated find whose limit cuts the data short.
C5_Witness ==
  /\ Called("find")
  /\ last.params.limit = Undef
  /\ last.out.shape = "page"
  /\ Len(last.out.rows) = last.out.limit
  /\ Cardinality(Targets) > last.out.limit

\* The stored record update(id, ...) was about, as a set of 0 or 1.
Located == findById(store, last.id)

Supplied(f) ==
  IF f \in DOMAIN last.data.items[1] THEN last.data.items[1][f] ELSE Null

OthersUntouched ==
  {r \in store : r[idField] # last.id}
    = {r \in last.pre : r[idField] # last.id}

C7_EagerGetUsesIdField ==
  (/\ Called("get")
   /\ last.params.include
   /\ last.params.query.where = EmptyObj)
  => last.out = get(last.pre, last.id, [last.params EXCEPT !.include = FALSE])

\* C8: update with an array rejects with BadRequest and leaves the table
\* as it was, whether or not a record has the id.
C8_UpdateArrayIsBadRequest ==
  (Called("update") /\ last.data.isArray)
  => last.out.kind = "BadRequest" /\ store = last.pre

\* C8 witness: an array given for the id of a stored record.
C8_Witness ==
  /\ Called("update") /\ last.data.isArray
  /\ Present(last.pre, last.id)
  /\ last.out.kind = "BadRequest"

\* C10 (as claimed): with $returning not false the returning-update path
\* and the generic path of patch leave the same table and the same outcome.
C10_PatchPathsAgree ==
  (Called("patch") /\ last.params.returning # "false")
  => patchReturning(last.pre, last.id, last.data.items[1], last.params)
       = patchGeneric(last.pre, last.id, last.data.items[1], last.params)

(***************************************************************************)
(* The generic patch path as the event loop runs it: three steps, each a   *)
(* promise callback, with the calls of other clients free to run between   *)
(* them.  flight is the patch under way:                                   *)
(*   pc      "idle", "ids" (ids resolved), "updated", "done"               *)
(*   idList  the ids step 1 resolved                                       *)
(*   written the keys of the rows step 2 wrote                             *)
(*   alone   no other call changed the table since step 1                  *)
(* The other clients' calls are the same methods; their outcomes are not   *)
(* recorded, and the records they write keep "code" equal to "id", the id  *)
(* field.  The patch under way has no $limit and no $skip in its query.    *)
(***************************************************************************)

RaceObjects == {("v" :> x) : x \in Vals}

RaceQueries == {q \in Queries : q.limit = Undef /\ q.skip = Undef}

InitRace ==
  /\ idField = "id"
  /\ dialect = "sqlite"
  /\ paginate = NoPaginate
  /\ store = {}
  /\ last = NoCall
  /\ flight = FlightIdle

PatchBegin ==
  \E id \in Ids \cup {Null}, o \in RaceObjects, q \in RaceQueries :
    LET params == Params(q, FALSE, Undef, "unset", UnsetPaginate)
    IN /\ flight.pc = "idle"
       /\ ~usesReturning(params)
       /\ flight' = [pc |-> "ids", id |-> id, data |-> o, params |-> params,
                     idList |-> patchIds(store, id, params),
                     written |-> {}, alone |-> TRUE, out |-> Err("pending")]
       /\ UNCHANGED <<idField, dialect, paginate, store, last>>

PatchWrite ==
  LET results == patchUpdate(store, flight.id, flight.data, flight.params)
  IN /\ flight.pc = "ids"
     /\ store' = results.store
     /\ flight' = [flight EXCEPT !.pc = "updated", !.written = results.keys]
     /\ UNCHANGED <<idField, dialect, paginate, last>>

PatchRequery ==
  /\ flight.pc = "updated"
  /\ flight' = [flight EXCEPT
                  !.pc = "done",
                  !.out = patchRequery(store, flight.id, flight.params,
                                       flight.idList)]
  /\ UNCHANGED <<idField, dialect, paginate, store, last>>

PatchReturn ==
  /\ flight.pc = "done"
  /\ flight' = FlightIdle
  /\ UNCHANGED <<idField, dialect, paginate, store, last>>

\* Another client's call leaves the table as S.
Other(S) ==
  /\ flight.pc # "done"
  /\ store' = S
  /\ flight' = [flight EXCEPT !.alone = @ /\ (flight.pc = "idle" \/ S = store)]
  /\ UNCHANGED <<idField, dialect, paginate, last>>

RaceRecords == {r \in NewRecords : r.id = r.code}

OtherCreate ==
  \E r \in RaceRecords : Other(create(store, Object(r), FlightIdle.params).store)

OtherPatch ==
  \E id \in Ids \cup {Null}, o \in RaceObjects, q \in RaceQueries :
    Other(patch(store, id, Object(o),
                Params(q, FALSE, Undef, "false", UnsetPaginate)).store)

OtherUpdate ==
  \E r \in RaceRecords :
    Other(update(store, r[idField], Object(r), FlightIdle.params).store)

OtherRemove ==
  \E id \in Ids \cup {Null}, q \in RaceQueries :
    Other(remove(store, id,
                 Params(q, FALSE, Undef, "false", UnsetPaginate)).store)

NextRace ==
  \/ PatchBegin \/ PatchWrite \/ PatchRequery \/ PatchReturn
  \/ OtherCreate \/ OtherPatch \/ OtherUpdate \/ OtherRemove

SpecRace == InitRace /\ [][NextRace]_vars

PatchedAll == flight.pc = "done" /\ flight.id = Null

ResultKeys == {r[idField] : r \in Range(flight.out.rows)}

CarriesPatch(r) == \A f \in DOMAIN flight.data \ {idField} : r[f] = flight.data[f]

\* C9: the generic patch is not atomic.  Whenever patch(null, ...), its
\* query without $limit and $skip, ran with no other call changing the
\* table between its steps, it resolves with exactly the rows its update
\* wrote, each carrying the patched values; so the difference the witness
\* shows comes from the interleaving alone.
C9_AloneReturnsWhatItWrote ==
  (PatchedAll /\ flight.alone)
  => /\ flight.out.kind = "ok"
     /\ ResultKeys = flight.written
     /\ \A r \in Range(flight.out.rows) : r \in store /\ CarriesPatch(r)

\* C9 witness: an interleaving after which patch(null, ...) resolves with
\* rows other than those its update wrote, one of them without the patched
\* values.
C9_Witness ==
  /\ PatchedAll /\ ~flight.alone
  /\ flight.out.kind = "ok"
  /\ ResultKeys # flight.written
  /\ \E r \in Range(flight.out.rows) : ~CarriesPatch(r)

====
